---- MODULE Spec2Model ----
(***************************************************************************)
(* Model of src/components/Tooltip.tsx (react-native-paper): the Tooltip   *)
(* class component, its long-press timers, its asynchronous child          *)
(* measurement and its position calculator.                                *)
(*                                                                         *)
(* Time is in milliseconds.  A pending setTimeout is a record of the timer *)
(* queue with the time it still has to wait; Tick lets Step milliseconds   *)
(* pass and is disabled while a timer is due, so a due callback runs       *)
(* before more time passes (touch events may still be handled first).      *)
(* this.setState(patch) is modelled as the assignment it requests.         *)
(*                                                                         *)
(* Horizontal positions returned by the position calculator are expressed  *)
(* in half pixels (twice the pixel value), which keeps                     *)
(* (childrenWidth - tooltipWidth) / 2 exact on integers.                   *)
(***************************************************************************)
EXTENDS Integers, Sequences, FiniteSets, TLC

VARIABLES
    phase,              \* "constructed", "mounted" or "unmounted"
    listener,           \* Dimensions 'change' listener registered
    window,             \* Dimensions.get('window')
    APPROX_STATUSBAR_HEIGHT, \* imported from ../constants (24 on Android)
    _children,          \* this._children is set (a child reference is registered)
    _longPressTimeout,  \* this._longPressTimeout: a timer handle
    childrenLayout,     \* this.state.childrenLayout
    tooltipLayout,      \* this.state.tooltipLayout
    tooltipVisible,     \* this.state.tooltipVisible
    tooltipOpacity,     \* this.state.tooltipOpacity, in tenths (9 is 0.9)
    tooltipMeasured,    \* this.state.tooltipMeasured
    timers,             \* pending setTimeout callbacks, in scheduling order
    measuring,          \* UIManager.measure calls whose callback is outstanding
    rendered,           \* style of the tooltip view of the last render, or NoTooltip
    rest,               \* this.props without children, title, wrapperStyle, style, theme
    childElement,       \* props of the only child, React.Children.only(children)
    clonedElement,      \* props of the clone of the child made by the last render
    touchHeld,          \* observer: ms the current touch has been held, -1 if none
    pressWatch,         \* observer: progress of a single long-press gesture
    cancelWatch         \* observer: a cancel that came before the show timer fired

vars == << phase, listener, window, APPROX_STATUSBAR_HEIGHT, _children,
           _longPressTimeout, childrenLayout, tooltipLayout, tooltipVisible,
           tooltipOpacity, tooltipMeasured, timers, measuring, rendered,
           rest, childElement, clonedElement, touchHeld, pressWatch,
           cancelWatch >>

state == << childrenLayout, tooltipLayout, tooltipVisible, tooltipOpacity,
            tooltipMeasured >>

observers == << touchHeld, pressWatch, cancelWatch >>

elements == << rest, childElement, clonedElement >>

(***************************************************************************)
(* Bounds and program constants                                            *)
(***************************************************************************)
Step == 250             \* milliseconds that pass in one Tick
MaxTimers == 2          \* pending show/hide timers
MaxMeasuring == 1       \* measurements requested and not yet delivered
MaxCoord == 4           \* coordinates 0..MaxCoord of the position calculator

delayLongPress == 500   \* static defaultProps
SettleDelay == 500      \* setTimeout(..., 500) of _setChildrenPosition
marginTop == 24         \* styles.tooltip.marginTop

NoTooltip == [left |-> -1000000, top |-> -1000000, shown |-> FALSE]

ZeroRect == [x |-> 0, y |-> 0, width |-> 0, height |-> 0]
ZeroSize == [width |-> 0, height |-> 0]

\* Values the host environment reports in the component's life cycle.
Windows == { [width |-> 360, height |-> 640], [width |-> 640, height |-> 360] }
MeasuredRects == { [x |-> 100, y |-> 40, width |-> 40, height |-> 40],
                   [x |-> 300, y |-> 600, width |-> 40, height |-> 40] }
LayoutSizes == { [width |-> 300, height |-> 30], [width |-> 80, height |-> 30] }

(***************************************************************************)
(* Position calculator                                                     *)
(***************************************************************************)
\* Mutant: the comparison of _overflowLeft turned round.
_overflowLeftFlipped(centerDistanceFromChildren) ==
    centerDistanceFromChildren > 0

_overflowLeft(centerDistanceFromChildren) ==
    centerDistanceFromChildren < 0

\* Mutant: _overflowRight forgetting the width of the tooltip.
_overflowRightNoWidth(centerDistanceFromChildren, tl, win) ==
    centerDistanceFromChildren > 2 * win.width

\* Mutant: _overflowRight counting a tooltip that just fits as overflowing.
_overflowRightInclusive(centerDistanceFromChildren, tl, win) ==
    centerDistanceFromChildren + 2 * tl.width >= 2 * win.width

\* centerDistanceFromChildren in half pixels
_overflowRight(centerDistanceFromChildren, tl, win) ==
    centerDistanceFromChildren + 2 * tl.width > 2 * win.width

\* Mutant: _overflowBottom counting a tooltip that just fits as overflowing.
_overflowBottomInclusive(cl, tl, win, statusBar) ==
    cl.y + cl.height + tl.height + statusBar >= win.height

_overflowBottom(cl, tl, win, statusBar) ==
    cl.y + cl.height + tl.height + statusBar > win.height

\* result in half pixels
_getTooltipXPosition(cl, tl, win) ==
    LET centerDistanceFromChildren == 2 * cl.x + (cl.width - tl.width)
    IN  IF _overflowRight(centerDistanceFromChildren, tl, win)
        THEN 2 * (cl.x + cl.width - tl.width)
        ELSE IF _overflowLeft(centerDistanceFromChildren)
        THEN 2 * cl.x
        ELSE centerDistanceFromChildren

\* Mutant: _getTooltipYPosition flipping when the tooltip fits below.
_getTooltipYPositionInverted(cl, tl, win, statusBar) ==
    IF ~_overflowBottom(cl, tl, win, statusBar)
    THEN cl.y - tl.height - marginTop - statusBar
    ELSE cl.y + tl.height

_getTooltipYPosition(cl, tl, win, statusBar) ==
    IF _overflowBottom(cl, tl, win, statusBar)
    THEN cl.y - tl.height - marginTop - statusBar
    ELSE cl.y + tl.height

\* The tooltip view of render(): present only while tooltipVisible.
render(ph, visible, cl, tl, win, statusBar) ==
    IF ph = "mounted" /\ visible
    THEN [left |-> _getTooltipXPosition(cl, tl, win),
          top |-> _getTooltipYPosition(cl, tl, win, statusBar),
          shown |-> TRUE]
    ELSE NoTooltip

(***************************************************************************)
(* Timers                                                                  *)
(***************************************************************************)
\* A timer handle is the place of the pending timer in the queue; 0 stands
\* for undefined and for the id of a timer that is no longer pending, which
\* clearTimeout treats alike.
RemoveAt(q, i) ==
    [ j \in 1 .. (Len(q) - 1) |-> IF j < i THEN q[j] ELSE q[j + 1] ]

\* The queue after setTimeout(callback, delay); the id returned is the place
\* of the new timer, setTimeoutId.
setTimeout(q, kind, visible, delay) ==
    Append(q, [kind |-> kind, visible |-> visible, remaining |-> delay])

setTimeoutId(q) == Len(q) + 1

clearTimeout(q, handle) ==
    IF handle \in 1 .. Len(q) THEN RemoveAt(q, handle) ELSE q

\* The value of a handle once the timer at place i has left the queue.
HandleAfter(handle, i) ==
    IF handle = i THEN 0 ELSE IF handle > i THEN handle - 1 ELSE handle

_clearTimeouts ==
    clearTimeout(timers, _longPressTimeout)

Due(t) == t.remaining <= 0

\* The due timer the event loop runs next: earliest deadline, then oldest.
IsNextDue(i) ==
    /\ i \in 1 .. Len(timers)
    /\ Due(timers[i])
    /\ \A j \in 1 .. Len(timers) :
          \/ timers[j].remaining > timers[i].remaining
          \/ (timers[j].remaining = timers[i].remaining /\ j >= i)

ShowHidePending(q) ==
    { i \in 1 .. Len(q) : q[i].kind \in {"show", "hide"} }

MeasurePending(q) ==
    { i \in 1 .. Len(q) : q[i].kind = "measure" }

Min(a, b) == IF a < b THEN a ELSE b

(***************************************************************************)
(* The child handed to the wrapper and its clone.  Props objects are       *)
(* functions from the names of their own properties to values.             *)
(***************************************************************************)
\* () => {}, the handler render() creates; no consumer value is equal to it.
Noop == "noop"

\* { onLongPress: () => {}, ...rest }: the spread comes after the no-op, so a
\* property of rest replaces a property of the same name before it.  ref is
\* taken by cloneElement as the reference and is not one of the props.
ChildConfig(r) == r @@ ("onLongPress" :> Noop)

\* React.cloneElement(element, config): the element's props, each replaced by
\* the property of config of the same name.
cloneElement(element, config) == config @@ element

\* The props of the child that render() returns.
renderChild(r, child) == cloneElement(child, ChildConfig(r))

\* No clone made yet.
NotCloned == [n \in {} |-> Noop]

\* <Tooltip title="Search"><Appbar.Action icon="search" onPress={...} />
\* </Tooltip>: no extra property but the default delayLongPress.
UsageRest == ("delayLongPress" :> delayLongPress)

UsageChild == ("onPress" :> "f")

(***************************************************************************)
(* Initial state: the instance after construction and its first render     *)
(***************************************************************************)
Init ==
    /\ phase = "constructed"
    /\ listener = FALSE
    /\ window \in Windows
    /\ APPROX_STATUSBAR_HEIGHT = 24
    /\ _children = FALSE
    /\ _longPressTimeout = 0
    /\ childrenLayout = ZeroRect
    /\ tooltipLayout = ZeroSize
    /\ tooltipVisible = FALSE
    /\ tooltipOpacity = 0
    /\ tooltipMeasured = FALSE
    /\ timers = << >>
    /\ measuring = 0
    /\ rendered = NoTooltip
    /\ rest = UsageRest
    /\ childElement = UsageChild
    /\ clonedElement = renderChild(UsageRest, UsageChild)
    /\ touchHeld = -1
    /\ pressWatch = "off"
    /\ cancelWatch = "none"

\* The style of the tooltip view after the render that setState causes.  The
\* props do not change, so the render clones the child as before.
Rerender ==
    rendered' = render(phase', tooltipVisible', childrenLayout', tooltipLayout',
                       window', APPROX_STATUSBAR_HEIGHT')

(***************************************************************************)
(* Life cycle and layout observer                                          *)
(***************************************************************************)
\* ref callback of the cloned child: this._children = element.  React calls
\* it in the commit that mounts the component, just before componentDidMount
\* (never, for a child that takes no ref), and with null in the commit that
\* unmounts it, just after componentWillUnmount.
_setChildrenRef(element) == element

\* Whether one more measurement may be requested within the bounds.
MeasureRoom ==
    Cardinality(MeasurePending(timers)) + measuring < MaxMeasuring

\* Mutant: _setChildrenPosition without the check of findNodeHandle's result.
_setChildrenPositionAnyTarget(children, target) ==
    IF ~children THEN timers
    ELSE setTimeout(timers, "measure", FALSE, SettleDelay)

\* The timer queue after _setChildrenPosition(); target is findNodeHandle's
\* result (FALSE for null).
_setChildrenPosition(children, target) ==
    IF ~children THEN timers
    ELSE IF ~target THEN timers
    ELSE setTimeout(timers, "measure", FALSE, SettleDelay)

componentDidMount(element, target) ==
    /\ phase = "constructed"
    /\ MeasureRoom
    /\ phase' = "mounted"
    /\ _children' = _setChildrenRef(element)
    /\ listener' = TRUE
    /\ timers' = _setChildrenPosition(_setChildrenRef(element), target)
    /\ UNCHANGED << window, APPROX_STATUSBAR_HEIGHT, elements, _longPressTimeout, state,
                    measuring, rendered, observers >>

componentWillUnmount ==
    /\ phase = "mounted"
    /\ phase' = "unmounted"
    /\ listener' = FALSE
    /\ timers' = _clearTimeouts
    /\ _longPressTimeout' = 0
    /\ rendered' = NoTooltip
    /\ touchHeld' = -1
    /\ pressWatch' = "off"
    /\ cancelWatch' = "none"
    /\ _children' = _setChildrenRef(FALSE)
    /\ UNCHANGED << window, APPROX_STATUSBAR_HEIGHT, elements, state, measuring >>

\* Dimensions emits 'change': the registered listener is _setChildrenPosition.
\* No state is set, so nothing is rendered again.
DimensionsChange(win, target) ==
    /\ phase # "constructed"
    /\ win # window
    /\ MeasureRoom
    /\ window' = win
    /\ timers' = IF listener THEN _setChildrenPosition(_children, target)
                  ELSE timers
    /\ UNCHANGED << phase, listener, APPROX_STATUSBAR_HEIGHT, elements, _children,
                    _longPressTimeout, state, measuring, rendered, observers >>

\* The callback handed to UIManager.measure is delivered.
MeasureCallback(pageX, pageY, width, height) ==
    /\ measuring > 0
    /\ measuring' = measuring - 1
    /\ childrenLayout' = [x |-> pageX, y |-> pageY,
                          width |-> width, height |-> height]
    /\ UNCHANGED << phase, listener, window, APPROX_STATUSBAR_HEIGHT, elements,
                    _children, _longPressTimeout, tooltipLayout, tooltipVisible,
                    tooltipOpacity, tooltipMeasured, timers, observers >>
    /\ Rerender

\* Mutant: _handleTooltipLayout without the tooltipMeasured guard.
_handleTooltipLayoutAlways(layout) ==
    /\ phase = "mounted"
    /\ rendered.shown
    /\ tooltipLayout' = [width |-> layout.width, height |-> layout.height]
    /\ tooltipOpacity' = 9
    /\ tooltipMeasured' = TRUE
    /\ UNCHANGED << phase, listener, window, APPROX_STATUSBAR_HEIGHT, elements,
                    _children, _longPressTimeout, childrenLayout,
                    tooltipVisible, timers, measuring, observers >>
    /\ Rerender

\* Mutant: _handleTooltipLayout leaving tooltipOpacity out of its setState.
_handleTooltipLayoutNoOpacity(layout) ==
    /\ phase = "mounted"
    /\ rendered.shown
    /\ IF ~tooltipMeasured
       THEN /\ tooltipLayout' = [width |-> layout.width,
                                 height |-> layout.height]
            /\ tooltipMeasured' = TRUE
       ELSE UNCHANGED << tooltipLayout, tooltipMeasured >>
    /\ UNCHANGED << phase, listener, window, APPROX_STATUSBAR_HEIGHT, elements,
                    _children, _longPressTimeout, childrenLayout,
                    tooltipVisible, tooltipOpacity, timers, measuring,
                    observers >>
    /\ Rerender

\* onLayout of the tooltip view, delivered while the view is rendered.
_handleTooltipLayout(layout) ==
    /\ phase = "mounted"
    /\ rendered.shown
    /\ IF ~tooltipMeasured
       THEN /\ tooltipLayout' = [width |-> layout.width,
                                 height |-> layout.height]
            /\ tooltipOpacity' = 9
            /\ tooltipMeasured' = TRUE
       ELSE UNCHANGED << tooltipLayout, tooltipOpacity, tooltipMeasured >>
    /\ UNCHANGED << phase, listener, window, APPROX_STATUSBAR_HEIGHT, elements,
                    _children, _longPressTimeout, childrenLayout,
                    tooltipVisible, timers, measuring, observers >>
    /\ Rerender

(***************************************************************************)
(* Visibility state machine                                                *)
(***************************************************************************)
\* The value _showTooltip / _hideTooltip set tooltipVisible to.
_showTooltip == TRUE

\* Mutant: _hideTooltip leaving the tooltip as it is.
_hideTooltipKeeps == tooltipVisible

_hideTooltip == FALSE

_handleTouchStart ==
    /\ phase = "mounted"
    /\ Cardinality(ShowHidePending(timers)) < MaxTimers
    /\ timers' = setTimeout(timers, "show", FALSE, delayLongPress)
    /\ _longPressTimeout' = setTimeoutId(timers)
    /\ touchHeld' = IF touchHeld = -1 THEN 0 ELSE touchHeld
    /\ pressWatch' = IF ~tooltipVisible /\ ShowHidePending(timers) = {}
                     THEN "pressed" ELSE "off"
    /\ cancelWatch' = IF cancelWatch = "fired" THEN "fired" ELSE "row"
    /\ UNCHANGED << phase, listener, window, APPROX_STATUSBAR_HEIGHT, elements,
                    _children, state, measuring, rendered >>

_handleTouchEndCapture ==
    /\ phase = "mounted"
    /\ Cardinality(ShowHidePending(_clearTimeouts)) < MaxTimers
    /\ timers' = setTimeout(_clearTimeouts, "hide", tooltipVisible,
                            delayLongPress)
    /\ _longPressTimeout' = setTimeoutId(_clearTimeouts)
    /\ touchHeld' = -1
    /\ pressWatch' = IF pressWatch = "shown" THEN "released" ELSE "off"
    /\ cancelWatch' = IF cancelWatch = "cancelled" THEN "cancelled" ELSE "none"
    /\ UNCHANGED << phase, listener, window, APPROX_STATUSBAR_HEIGHT, elements,
                    _children, state, measuring, rendered >>

_handleTouchCancel ==
    /\ phase = "mounted"
    /\ timers' = _clearTimeouts
    /\ _longPressTimeout' = 0
    /\ tooltipVisible' = _hideTooltip
    /\ touchHeld' = -1
    /\ pressWatch' = "off"
    /\ cancelWatch' = IF cancelWatch \in {"row", "cancelled"}
                      THEN "cancelled" ELSE "none"
    /\ UNCHANGED << phase, listener, window, APPROX_STATUSBAR_HEIGHT, elements,
                    _children, childrenLayout, tooltipLayout, tooltipOpacity,
                    tooltipMeasured, measuring >>
    /\ Rerender

(***************************************************************************)
(* Timer callbacks and the passing of time                                 *)
(***************************************************************************)
\* () => { this._showTooltip(); }
ShowTimerFires ==
    \E i \in 1 .. Len(timers) :
        /\ IsNextDue(i)
        /\ timers[i].kind = "show"
        /\ timers' = RemoveAt(timers, i)
        /\ tooltipVisible' = _showTooltip
        /\ pressWatch' = IF pressWatch = "pressed" THEN "shown" ELSE pressWatch
        /\ cancelWatch' = IF cancelWatch = "row" THEN "fired" ELSE cancelWatch
        /\ _longPressTimeout' = HandleAfter(_longPressTimeout, i)
        /\ UNCHANGED << phase, listener, window, APPROX_STATUSBAR_HEIGHT, elements,
                        _children, childrenLayout, tooltipLayout,
                        tooltipOpacity, tooltipMeasured, measuring, touchHeld >>
        /\ Rerender

\* () => { tooltipVisible && this._hideTooltip(); } with the tooltipVisible
\* that _handleTouchEndCapture read.
HideTimerFires ==
    \E i \in 1 .. Len(timers) :
        /\ IsNextDue(i)
        /\ timers[i].kind = "hide"
        /\ timers' = RemoveAt(timers, i)
        /\ tooltipVisible' = IF timers[i].visible THEN _hideTooltip
                             ELSE tooltipVisible
        /\ pressWatch' = IF pressWatch = "released" THEN "done" ELSE pressWatch
        /\ _longPressTimeout' = HandleAfter(_longPressTimeout, i)
        /\ UNCHANGED << phase, listener, window, APPROX_STATUSBAR_HEIGHT, elements,
                        _children, childrenLayout, tooltipLayout,
                        tooltipOpacity, tooltipMeasured, measuring, touchHeld,
                        cancelWatch >>
        /\ Rerender

\* Mutant: the measurement started without waiting for the settling delay.
MeasureTimerFiresEarly ==
    \E i \in 1 .. Len(timers) :
        /\ timers[i].kind = "measure"
        /\ timers' = RemoveAt(timers, i)
        /\ measuring' = measuring + 1
        /\ _longPressTimeout' = HandleAfter(_longPressTimeout, i)
        /\ UNCHANGED << phase, listener, window, APPROX_STATUSBAR_HEIGHT, elements,
                        _children, state, rendered, observers >>

\* () => { UIManager.measure(target, callback); }
MeasureTimerFires ==
    \E i \in 1 .. Len(timers) :
        /\ IsNextDue(i)
        /\ timers[i].kind = "measure"
        /\ timers' = RemoveAt(timers, i)
        /\ measuring' = measuring + 1
        /\ _longPressTimeout' = HandleAfter(_longPressTimeout, i)
        /\ UNCHANGED << phase, listener, window, APPROX_STATUSBAR_HEIGHT, elements,
                        _children, state, rendered, observers >>

Tick ==
    /\ \A i \in 1 .. Len(timers) : ~Due(timers[i])
    /\ timers' = [ i \in 1 .. Len(timers) |->
                     [timers[i] EXCEPT !.remaining = @ - Step] ]
    /\ touchHeld' = IF touchHeld = -1 THEN -1
                    ELSE Min(touchHeld + Step, delayLongPress)
    /\ UNCHANGED << phase, listener, window, APPROX_STATUSBAR_HEIGHT, elements,
                    _children, _longPressTimeout, state, measuring, rendered,
                    pressWatch, cancelWatch >>

Next ==
    \/ \E element, target \in BOOLEAN : componentDidMount(element, target)
    \/ componentWillUnmount
    \/ \E win \in Windows, target \in BOOLEAN : DimensionsChange(win, target)
    \/ \E r \in MeasuredRects : MeasureCallback(r.x, r.y, r.width, r.height)
    \/ \E layout \in LayoutSizes : _handleTooltipLayout(layout)
    \/ _handleTouchStart
    \/ _handleTouchEndCapture
    \/ _handleTouchCancel
    \/ ShowTimerFires
    \/ HideTimerFires
    \/ MeasureTimerFires
    \/ Tick

Spec == Init /\ [][Next]_vars

\* Time passes, every due timer callback is run and every measurement that
\* UIManager started calls back.
FairSpec ==
    /\ Spec
    /\ WF_vars(Tick)
    /\ WF_vars(ShowTimerFires)
    /\ WF_vars(HideTimerFires)
    /\ WF_vars(MeasureTimerFires)
    /\ WF_vars(\E r \in MeasuredRects :
                  MeasureCallback(r.x, r.y, r.width, r.height))

(***************************************************************************)
(* Position calculator on its own: the inputs of the horizontal placement  *)
(* are drawn from bounded sets and render() computes the tooltip style.    *)
(***************************************************************************)
ScenarioCoords == {10, 20, 100, 150, 300, 400}

Coords == (0 .. MaxCoord) \cup ScenarioCoords

GeoXInit ==
    /\ phase = "mounted"
    /\ listener = TRUE
    /\ window \in [width : Coords, height : {640}]
    /\ APPROX_STATUSBAR_HEIGHT = 24
    /\ _children = TRUE
    /\ _longPressTimeout = 0
    /\ childrenLayout \in [x : Coords, y : {0}, width : Coords, height : {0}]
    /\ tooltipLayout \in [width : Coords, height : {0}]
    /\ tooltipVisible = TRUE
    /\ tooltipOpacity = 9
    /\ tooltipMeasured = TRUE
    /\ timers = << >>
    /\ measuring = 0
    /\ rendered = NoTooltip
    /\ rest = UsageRest
    /\ childElement = UsageChild
    /\ clonedElement = renderChild(UsageRest, UsageChild)
    /\ touchHeld = -1
    /\ pressWatch = "off"
    /\ cancelWatch = "none"

GeoRender ==
    /\ ~rendered.shown
    /\ UNCHANGED << phase, listener, window, APPROX_STATUSBAR_HEIGHT, elements,
                    _children, _longPressTimeout, state, timers, measuring,
                    observers >>
    /\ Rerender

GeoXNext == GeoRender

GeoXSpec == GeoXInit /\ [][GeoXNext]_vars

\* The centered position childX + (childWidth - tooltipWidth) / 2, in half
\* pixels, of the state's rectangles.
Centered2 == 2 * childrenLayout.x + (childrenLayout.width - tooltipLayout.width)

CenterIsInteger == (childrenLayout.width - tooltipLayout.width) % 2 = 0

ChildInsideViewport ==
    /\ 0 <= childrenLayout.x
    /\ childrenLayout.x + childrenLayout.width <= window.width

(***************************************************************************)
(* The vertical placement on its own: its inputs, the status bar height    *)
(* among them, are drawn from bounded sets.                                *)
(***************************************************************************)
\* APPROX_STATUSBAR_HEIGHT of ../constants: 24 on Android, 20 or 0 on iOS.
StatusBarHeights == {0, 20, 24}

ScenarioYCoords == {30, 40, 570, 600, 640}

YCoords == (0 .. MaxCoord) \cup ScenarioYCoords

GeoYInit ==
    /\ phase = "mounted"
    /\ listener = TRUE
    /\ window \in [width : {360}, height : YCoords]
    /\ APPROX_STATUSBAR_HEIGHT \in StatusBarHeights
    /\ _children = TRUE
    /\ _longPressTimeout = 0
    /\ childrenLayout \in [x : {0}, y : YCoords, width : {0}, height : YCoords]
    /\ tooltipLayout \in [width : {0}, height : YCoords]
    /\ tooltipVisible = TRUE
    /\ tooltipOpacity = 9
    /\ tooltipMeasured = TRUE
    /\ timers = << >>
    /\ measuring = 0
    /\ rendered = NoTooltip
    /\ rest = UsageRest
    /\ childElement = UsageChild
    /\ clonedElement = renderChild(UsageRest, UsageChild)
    /\ touchHeld = -1
    /\ pressWatch = "off"
    /\ cancelWatch = "none"

GeoYNext == GeoRender

GeoYSpec == GeoYInit /\ [][GeoYNext]_vars

\* childY + childHeight + tooltipHeight + statusBarOffset of the state.
BelowChildBottom ==
    childrenLayout.y + childrenLayout.height + tooltipLayout.height
        + APPROX_STATUSBAR_HEIGHT

ChildInsideViewportY ==
    /\ 0 <= childrenLayout.y
    /\ childrenLayout.y + childrenLayout.height <= window.height

(***************************************************************************)
(* The cloning of the child on its own: the extra properties of the        *)
(* wrapper and the props of the child are drawn from bounded sets and      *)
(* render() clones the child.                                              *)
(***************************************************************************)
HandlerNames == {"onLongPress", "onPress"}

Handlers == {"f", "g"}

Delays == {500, 1000}

\* Objects with any of the handler properties.
HandlerProps == UNION { [S -> Handlers] : S \in SUBSET HandlerNames }

\* delayLongPress has a default, so this.props always has one.
RestProps ==
    { h @@ ("delayLongPress" :> d) : h \in HandlerProps, d \in Delays }

ChildProps ==
    HandlerProps \cup
        { h @@ ("delayLongPress" :> d) : h \in HandlerProps, d \in Delays }

PropsInit ==
    /\ phase = "constructed"
    /\ listener = FALSE
    /\ window \in Windows
    /\ APPROX_STATUSBAR_HEIGHT = 24
    /\ _children = FALSE
    /\ _longPressTimeout = 0
    /\ childrenLayout = ZeroRect
    /\ tooltipLayout = ZeroSize
    /\ tooltipVisible = FALSE
    /\ tooltipOpacity = 0
    /\ tooltipMeasured = FALSE
    /\ timers = << >>
    /\ measuring = 0
    /\ rendered = NoTooltip
    /\ rest \in RestProps
    /\ childElement \in ChildProps
    /\ clonedElement = NotCloned
    /\ touchHeld = -1
    /\ pressWatch = "off"
    /\ cancelWatch = "none"

\* The first render(): the child is cloned with the wrapper's properties.
PropsRender ==
    /\ clonedElement = NotCloned
    /\ clonedElement' = renderChild(rest, childElement)
    /\ UNCHANGED << phase, listener, window, APPROX_STATUSBAR_HEIGHT,
                    _children, _longPressTimeout, state, timers, measuring,
                    rendered, rest, childElement, observers >>

PropsNext == PropsRender

PropsSpec == PropsInit /\ [][PropsNext]_vars

(***************************************************************************)
(* Claims                                                                  *)
(***************************************************************************)
\* C1: starting hidden with no show/hide timer pending, a touch-start arms
\* one show timer that fires when delayLongPress has elapsed and makes the
\* tooltip visible; a following touch-end-capture leaves it visible and arms
\* one hide timer, whose firing hides it (hidden -> visible -> hidden).
C1_LongPressShowsThenHides ==
    /\ pressWatch = "pressed" =>
          /\ ~tooltipVisible
          /\ Cardinality(ShowHidePending(timers)) = 1
          /\ _longPressTimeout \in ShowHidePending(timers)
          /\ timers[_longPressTimeout].kind = "show"
          /\ touchHeld = Min(delayLongPress - timers[_longPressTimeout].remaining,
                             delayLongPress)
    /\ pressWatch = "shown" =>
          /\ tooltipVisible
          /\ touchHeld >= delayLongPress
    /\ pressWatch = "released" =>
          /\ tooltipVisible
          /\ Cardinality(ShowHidePending(timers)) = 1
          /\ _longPressTimeout \in ShowHidePending(timers)
          /\ timers[_longPressTimeout].kind = "hide"
          /\ timers[_longPressTimeout].visible
    /\ pressWatch = "done" => ~tooltipVisible

C1_Witness ==
    /\ pressWatch = "done"
    /\ ~tooltipVisible
    /\ ShowHidePending(timers) = {}

\* C2: after a touch-cancel that came before the show timer of the preceding
\* touch-starts fired, and until the next touch-start, the tooltip is hidden.
C2_CancelKeepsHidden ==
    cancelWatch = "cancelled" => ~tooltipVisible

\* C3: at most one show/hide timer is pending in every reachable state.
C3_OnePendingTimer ==
    Cardinality(ShowHidePending(timers)) <= 1

\* C4: once the component is unmounted no step changes tooltipVisible (the
\* show/hide timer callbacks are the only ones that set it).
C4_NoShowHideAfterUnmount ==
    [][phase = "unmounted" => tooltipVisible' = tooltipVisible]_vars

\* C5: once the component is unmounted no measurement timer fires, no
\* measurement is requested and childrenLayout keeps its value.
C5_UnmountCancelsMeasurement ==
    [][phase = "unmounted" =>
          /\ Cardinality(MeasurePending(timers')) =
                 Cardinality(MeasurePending(timers))
          /\ measuring' = measuring
          /\ childrenLayout' = childrenLayout]_vars

\* C6: while the component is mounted, tooltipVisible turns from false to
\* true only when a touch has been in progress, with no touch-end-capture or
\* touch-cancel since its start, for at least delayLongPress.
C6_VisibleOnlyOnLongPress ==
    [][(phase = "mounted" /\ ~tooltipVisible /\ tooltipVisible') =>
          touchHeld >= delayLongPress]_vars

\* C7: for a child inside the viewport and a tooltip no wider than the
\* viewport, the rendered left keeps the tooltip inside the viewport.
C7_NoHorizontalOverflow ==
    (rendered.shown /\ ChildInsideViewport
        /\ tooltipLayout.width <= window.width) =>
          /\ 0 <= rendered.left
          /\ rendered.left + 2 * tooltipLayout.width <= 2 * window.width

\* C8 as stated: whenever the centered position is negative (and an integer),
\* the rendered left is childX.
C8_NegativeCenterGivesChildX ==
    (rendered.shown /\ CenterIsInteger /\ Centered2 < 0) =>
        rendered.left = 2 * childrenLayout.x

\* C8 amended: whenever the centered position is negative (and an integer)
\* and the centered tooltip does not pass the right edge of the viewport,
\* the rendered left is childX.
C8_NegativeCenterFittingRightGivesChildX ==
    (rendered.shown /\ CenterIsInteger /\ Centered2 < 0
        /\ Centered2 + 2 * tooltipLayout.width <= 2 * window.width) =>
        rendered.left = 2 * childrenLayout.x

C8_Witness ==
    /\ rendered.shown
    /\ childrenLayout.x = 10 /\ childrenLayout.width = 20
    /\ tooltipLayout.width = 300 /\ window.width = 400
    /\ rendered.left = 2 * 10

\* C9: whenever the centered position plus the tooltip width is greater than
\* the viewport width, the rendered left is childX + childWidth - tooltipWidth.
C9_RightOverflowAlignsRightEdges ==
    (rendered.shown /\ Centered2 + 2 * tooltipLayout.width > 2 * window.width) =>
        rendered.left =
            2 * (childrenLayout.x + childrenLayout.width - tooltipLayout.width)

C9_Witness ==
    /\ rendered.shown
    /\ Centered2 + 2 * tooltipLayout.width > 2 * window.width
    /\ Centered2 < 0
    /\ rendered.left # 2 * childrenLayout.x

\* The example of C10: childX=150, childWidth=100, tooltipWidth=300,
\* viewportWidth=400.
C10_Example ==
    /\ rendered.shown
    /\ childrenLayout.x = 150 /\ childrenLayout.width = 100
    /\ tooltipLayout.width = 300 /\ window.width = 400

\* C10 as stated: whenever the centered position c is >= 0 and
\* c + tooltipWidth is <= viewportWidth (equality included), the rendered left
\* is c; the example gives 100.
C10_FittingCenterIsKept_Example100 ==
    /\ (rendered.shown /\ Centered2 >= 0
          /\ Centered2 + 2 * tooltipLayout.width <= 2 * window.width) =>
            rendered.left = Centered2
    /\ C10_Example => rendered.left = 2 * 100

\* C10 amended: whenever the centered position c is >= 0 and
\* c + tooltipWidth is <= viewportWidth (equality included), the rendered left
\* is c; the example gives 50.
C10_FittingCenterIsKept ==
    /\ (rendered.shown /\ Centered2 >= 0
          /\ Centered2 + 2 * tooltipLayout.width <= 2 * window.width) =>
            rendered.left = Centered2
    /\ C10_Example => rendered.left = 2 * 50

\* The centered tooltip ends exactly on the right edge of the viewport.
C10_Witness ==
    /\ rendered.shown
    /\ Centered2 > 0
    /\ Centered2 + 2 * tooltipLayout.width = 2 * window.width
    /\ rendered.left = Centered2

\* C11: if childY + childHeight + tooltipHeight + statusBarOffset is
\* <= viewportHeight the rendered top is childY + tooltipHeight, otherwise it
\* is childY - tooltipHeight - marginTop - statusBarOffset.
C11_VerticalPosition ==
    rendered.shown =>
        IF BelowChildBottom <= window.height
        THEN rendered.top = childrenLayout.y + tooltipLayout.height
        ELSE rendered.top = childrenLayout.y - tooltipLayout.height - 24
                                - APPROX_STATUSBAR_HEIGHT

\* The tooltip just fits below the child, with a status bar.
C11_Witness ==
    /\ rendered.shown
    /\ APPROX_STATUSBAR_HEIGHT > 0
    /\ tooltipLayout.height > 0
    /\ BelowChildBottom = window.height
    /\ rendered.top = childrenLayout.y + tooltipLayout.height

\* C12: for a child inside the viewport, whenever the rendered top is the
\* below-child value, top + marginTop + tooltipHeight + statusBarOffset is
\* <= viewportHeight.
C12_BelowPlacementFits ==
    (rendered.shown /\ ChildInsideViewportY
        /\ rendered.top = childrenLayout.y + tooltipLayout.height) =>
          rendered.top + 24 + tooltipLayout.height + APPROX_STATUSBAR_HEIGHT
              <= window.height

\* C13 as stated: whenever the tooltip is rendered and has not been measured
\* (tooltipMeasured false, tooltipLayout zero), the position render computed
\* is (0, 0).
C13_UnmeasuredPositionIsOrigin ==
    /\ ~tooltipMeasured => tooltipLayout = ZeroSize
    /\ (rendered.shown /\ ~tooltipMeasured) =>
          (rendered.left = 0 /\ rendered.top = 0)

\* C13 amended: whenever the tooltip is rendered and neither the tooltip nor
\* the child has been measured (tooltipMeasured false, tooltipLayout and
\* childrenLayout zero), the position render computed is (0, 0).
C13_UnmeasuredPositionIsOriginForZeroChild ==
    /\ ~tooltipMeasured => tooltipLayout = ZeroSize
    /\ (rendered.shown /\ ~tooltipMeasured /\ childrenLayout = ZeroRect) =>
          (rendered.left = 0 /\ rendered.top = 0)

C13_Witness ==
    /\ rendered.shown
    /\ ~tooltipMeasured
    /\ childrenLayout = ZeroRect
    /\ rendered.left = 0 /\ rendered.top = 0

\* C14: the step that sets tooltipMeasured stores a reported layout size and
\* sets the opacity to 0.9; once tooltipMeasured is set, no step (layout
\* event, hide/show cycle, dimension change) changes tooltipLayout,
\* tooltipOpacity or tooltipMeasured, and tooltipLayout changes in no other
\* step.
C14_TooltipRectCapturedOnce ==
    [][ /\ tooltipMeasured =>
              /\ tooltipLayout' = tooltipLayout
              /\ tooltipOpacity' = tooltipOpacity
              /\ tooltipMeasured' = tooltipMeasured
        /\ (~tooltipMeasured /\ tooltipMeasured') =>
              /\ tooltipLayout' \in LayoutSizes
              /\ tooltipOpacity' = 9
              /\ rendered.shown
        /\ tooltipLayout' # tooltipLayout =>
              (~tooltipMeasured /\ tooltipMeasured') ]_vars

\* The tooltip is measured and rendered, so further layout events arrive.
C14_Witness ==
    /\ tooltipMeasured
    /\ rendered.shown
    /\ tooltipLayout \in LayoutSizes
    /\ tooltipOpacity = 9

\* C19: tooltipOpacity is 0.9 when tooltipMeasured and 0 otherwise,
\* tooltipMeasured never turns from true to false, and it turns true only in
\* a step taken while the tooltip is visible.
C19_OpacityFollowsMeasured ==
    /\ [](tooltipOpacity = IF tooltipMeasured THEN 9 ELSE 0)
    /\ [][tooltipMeasured => tooltipMeasured']_vars
    /\ [][(~tooltipMeasured /\ tooltipMeasured') => tooltipVisible]_vars

\* Measured, and hidden again afterwards.
C19_Witness ==
    /\ tooltipMeasured
    /\ tooltipOpacity = 9
    /\ ~tooltipVisible

\* A step that schedules no timer, starts no measurement and leaves
\* childrenLayout alone.
NoMeasurementRequested ==
    /\ timers' = timers
    /\ measuring' = measuring
    /\ childrenLayout' = childrenLayout

\* C16: a measurement request, at mount or on a dimension change, made while
\* no child reference is registered or while findNodeHandle returns null
\* schedules no timer and no measurement and leaves childrenLayout alone.
C16_UnresolvedRequestIsNoOp ==
    [][ /\ \A element, target \in BOOLEAN :
              (componentDidMount(element, target) /\ ~(element /\ target))
                  => NoMeasurementRequested
        /\ \A win \in Windows, target \in BOOLEAN :
              (DimensionsChange(win, target) /\ listener
                  /\ ~(_children /\ target))
                  => NoMeasurementRequested ]_vars

\* Mounted without a child reference, a measured child rectangle kept.
C16_Witness ==
    /\ phase = "mounted"
    /\ listener
    /\ ~_children
    /\ MeasurePending(timers) = {}
    /\ measuring = 0
    /\ childrenLayout = ZeroRect

\* C18: while the component is mounted, whenever no touch is in progress and
\* no show/hide timer is pending, the tooltip is hidden.
C18_QuiescentIsHidden ==
    (phase = "mounted" /\ touchHeld = -1 /\ ShowHidePending(timers) = {})
        => ~tooltipVisible

\* The measurement timers of a queue, oldest first.
MeasureTimers(q) ==
    SelectSeq(q, LAMBDA t : t.kind = "measure")

\* A measurement request made with a registered child and a native handle.
ResolvedRequest ==
    \/ componentDidMount(TRUE, TRUE)
    \/ \E win \in Windows :
          DimensionsChange(win, TRUE) /\ listener /\ _children

\* A step of the measurement callback that stores exactly what was measured.
StoresMeasured ==
    \E r \in MeasuredRects :
        /\ MeasureCallback(r.x, r.y, r.width, r.height)
        /\ childrenLayout' = r

\* Every resolved request starts a timer of the full settling delay (500 ms);
\* no other step starts one; a pending timer only loses the time that has
\* passed; a timer goes away only when it is due and then starts one
\* measurement; the only step that ends a measurement stores what was
\* measured, and childrenLayout is written by no other step.
C17_NotBeforeSettleDelay ==
    [][ LET old == MeasureTimers(timers)
            new == MeasureTimers(timers')
        IN  /\ ResolvedRequest => Len(new) = Len(old) + 1
            /\ Len(new) > Len(old) =>
                  /\ new = Append(old, [kind |-> "measure", visible |-> FALSE,
                                        remaining |-> 500])
                  /\ measuring' = measuring
            /\ Len(new) = Len(old) =>
                  /\ measuring' <= measuring
                  /\ \A k \in 1 .. Len(old) :
                        new[k].remaining \in
                            {old[k].remaining, old[k].remaining - Step}
            /\ Len(new) < Len(old) =>
                  /\ measuring' = measuring + 1
                  /\ \E j \in 1 .. Len(old) :
                        /\ old[j].remaining <= 0
                        /\ new = RemoveAt(old, j)
            /\ measuring' < measuring => StoresMeasured
            /\ childrenLayout' # childrenLayout =>
                  measuring > 0 /\ StoresMeasured ]_vars

\* C17: with a resolvable child, the mount and every dimension change start
\* a measurement timer of the settling delay (500 ms); under fair delivery
\* every such timer leads to a measurement and every measurement to
\* childrenLayout being set to the measured pageX, pageY, width and height;
\* childrenLayout is never written before the delay of the request elapsed.
\* As timers and measurements end only by the steps named, "timers are pending
\* again and again only if timers fire again and again" says that each
\* pending timer is followed by a firing, and likewise for the callback.
C17_RequestLeadsToMeasuredRect ==
    /\ C17_NotBeforeSettleDelay
    /\ \/ <>[](MeasureTimers(timers) = << >>)
       \/ []<><<MeasureTimerFires>>_vars
    /\ \/ <>[](measuring = 0)
       \/ []<><<StoresMeasured>>_vars
    /\ (MeasureTimers(timers) # << >>) ~> (measuring > 0)

\* Still mounted, the requested measurement was delivered and stored.
C17_Witness ==
    /\ phase = "mounted"
    /\ _children
    /\ childrenLayout \in MeasuredRects
    /\ MeasureTimers(timers) = << >>
    /\ measuring = 0

\* C15: the props of the cloned child have the wrapper's no-op as onLongPress
\* and every extra property of the wrapper, whatever the extra properties
\* (one named onLongPress included) and whatever the child's own props.
C15_CloneGetsNoOpAndExtraProps ==
    clonedElement # NotCloned =>
        /\ "onLongPress" \in DOMAIN clonedElement
        /\ clonedElement["onLongPress"] = Noop
        /\ \A n \in DOMAIN rest \ {"onLongPress"} :
              n \in DOMAIN clonedElement /\ clonedElement[n] = rest[n]

====
